---- MODULE Spec2Model ----
(***************************************************************************)
(* A model of the two range-test heat-map scripts, src/main.py and         *)
(* src/rtmap.py.  A run globs the CSV files of the script's directory,     *)
(* turns each into a heat-map layer (or skips it, or dies with an uncaught *)
(* exception) and saves the map.                                           *)
(*                                                                         *)
(* Numbers (CSV cells, JSON numbers, weights) are exact rationals          *)
(* [n |-> numerator, d |-> denominator] in lowest terms, so that -4.5 dB   *)
(* and the weight 16.5/33 are values of the model.                         *)
(***************************************************************************)
EXTENDS Integers, Sequences, FiniteSets, TLC

VARIABLES script, dir, csv_files, pc, i, layers, stdout, saved,
          exit_code, exc, center, prev

vars == <<script, dir, csv_files, pc, i, layers, stdout, saved,
          exit_code, exc, center, prev>>

----------------------------------------------------------------------------
(* Bounds of the model. *)

\* Files in the directory of a run.
MaxFiles == 3
\* Data rows in the whole directory (Spec) or in the one file (SpecPayload).
MaxRows == 2
\* How far beyond the clamp range [-21, 12] the SNR values of
\* SpecNormalizer go, in half decibels.
SnrMargin == 4

----------------------------------------------------------------------------
(* Rational numbers. *)

Abs(x) == IF x < 0 THEN -x ELSE x

RECURSIVE GCD(_, _)
GCD(a, b) == IF b = 0 THEN a ELSE GCD(b, a % b)

Rat(n, d) ==
    LET g == GCD(Abs(n), d)
    IN  [n |-> n \div g, d |-> d \div g]

Int2Rat(k) == Rat(k, 1)
RatAdd(a, b) == Rat(a.n * b.d + b.n * a.d, a.d * b.d)
RatSub(a, b) == Rat(a.n * b.d - b.n * a.d, a.d * b.d)
RatDivInt(a, k) == Rat(a.n, a.d * k)
RatLeq(a, b) == a.n * b.d <= b.n * a.d
RatMin(a, b) == IF RatLeq(a, b) THEN a ELSE b
RatMax(a, b) == IF RatLeq(a, b) THEN b ELSE a

Zero == Int2Rat(0)
One == Int2Rat(1)

----------------------------------------------------------------------------
(* Values: a CSV cell as pandas reads it, or a value of a decoded JSON     *)
(* payload.  "num" is an int or a float, "nan" a missing cell, "str" a     *)
(* text that is no number, "numstr" a JSON string that holds a number,     *)
(* "none" Python's None (JSON null, or dict.get of an absent key).         *)

Num(q) == [t |-> "num", v |-> q]
NaN == [t |-> "nan", v |-> Zero]
Str == [t |-> "str", v |-> Zero]
NumStr(q) == [t |-> "numstr", v |-> q]
PyNone == [t |-> "none", v |-> Zero]

\* Python's truth value, as the `or` chains of extract_values_from_payload
\* test it: 0 and None are false, a non-empty string is true.
Truthy(x) ==
    CASE x.t = "num" -> x.v.n # 0
      [] x.t = "none" -> FALSE
      [] OTHER -> TRUE

\* float(x): the exception it raises, or "none".
FloatExc(x) ==
    CASE x.t = "num" -> "none"
      [] x.t = "numstr" -> "none"
      [] x.t = "nan" -> "none"
      [] x.t = "none" -> "TypeError"
      [] OTHER -> "ValueError"

\* float(x) where it raises nothing.
Float(x) == IF x.t = "numstr" THEN Num(x.v) ELSE x

----------------------------------------------------------------------------
(* The payload cell of a row.  kind is what the cell holds:                *)
(*   "nan"     an empty cell, read as the float NaN;                       *)
(*   "text"    a text that is no JSON, such as "seq 12";                   *)
(*   "object"  the text of a JSON object, doc its keys and values;         *)
(*   "array"   the text of a JSON value that is no object;                 *)
(*   "dict"    a mapping handed to extract_values_from_payload directly.   *)
(* match says whether the text contains the regular expression "seq \d+".  *)

LatKeys == <<"rx lat", "lat", "latitude">>
LonKeys == <<"rx long", "lon", "longitude">>
SnrKeys == <<"rx snr", "snr", "SNR">>

NoDoc == [k \in {} |-> PyNone]

Payload(kind, match, doc) == [kind |-> kind, match |-> match, doc |-> doc]
NaNPayload == Payload("nan", FALSE, NoDoc)
SeqText == Payload("text", TRUE, NoDoc)
OtherText == Payload("text", FALSE, NoDoc)
JsonArray == Payload("array", FALSE, NoDoc)
JsonObject(doc) == Payload("object", FALSE, doc)

NoFields == <<PyNone, PyNone, PyNone>>

\* json.loads(payload) of a str.
JsonLoads(payload) ==
    IF payload.kind \in {"object", "array"}
    THEN [exc |-> "none", data |-> payload.doc]
    ELSE [exc |-> "JSONDecodeError", data |-> NoDoc]

\* data.get(key)
DictGet(data, key) == IF key \in DOMAIN data THEN data[key] ELSE PyNone

\* data.get(k1) or data.get(k2) or data.get(k3)
GetFirst(data, keys) ==
    LET a == DictGet(data, keys[1])
        b == DictGet(data, keys[2])
        c == DictGet(data, keys[3])
    IN  IF Truthy(a) THEN a ELSE IF Truthy(b) THEN b ELSE c

\* The try block of extract_values_from_payload: the exception it raises
\* ("none" when it returns) and the value it returns.
ExtractTry(payload) ==
    IF payload.kind \notin {"text", "object", "array", "dict"}
    THEN [exc |-> "none", val |-> NoFields]
    ELSE LET ld == IF payload.kind = "dict"
                   THEN [exc |-> "none", data |-> payload.doc]
                   ELSE JsonLoads(payload)
         IN  IF ld.exc # "none"
             THEN [exc |-> ld.exc, val |-> NoFields]
             ELSE IF payload.kind = "array"
             THEN [exc |-> "AttributeError", val |-> NoFields]
             ELSE LET lat == GetFirst(ld.data, LatKeys)
                      lon == GetFirst(ld.data, LonKeys)
                      snr == GetFirst(ld.data, SnrKeys)
                  IN  IF FloatExc(lat) # "none"
                      THEN [exc |-> FloatExc(lat), val |-> NoFields]
                      ELSE IF FloatExc(lon) # "none"
                      THEN [exc |-> FloatExc(lon), val |-> NoFields]
                      ELSE IF FloatExc(snr) # "none"
                      THEN [exc |-> FloatExc(snr), val |-> NoFields]
                      ELSE [exc |-> "none",
                            val |-> <<Float(lat), Float(lon), Float(snr)>>]

\* A plausible slip: only the decoding error is caught.
CaughtByExcept_OnlyDecode(e) == e \in {"JSONDecodeError", "ValueError"}

\* The exceptions `except Exception` catches: all that the try block raises.
CaughtByExcept(e) ==
    e \in {"JSONDecodeError", "ValueError", "TypeError", "AttributeError"}

extract_values_from_payload(payload) ==
    LET r == ExtractTry(payload)
    IN  IF r.exc # "none" /\ CaughtByExcept(r.exc)
        THEN [exc |-> "none", val |-> NoFields]
        ELSE r

----------------------------------------------------------------------------
(* The fixed-range SNR normalizers. *)

\* A plausible slip: the scaled value is not clamped.
weight_main_NoClamp(snr) == RatDivInt(RatAdd(snr, Int2Rat(21)), 33)

\* main.py: weight = max(0.0, min(1.0, (snr + 21.0) / 33.0))
weight_main(snr) ==
    RatMax(Zero, RatMin(One, RatDivInt(RatAdd(snr, Int2Rat(21)), 33)))

\* pandas' Series.clip(lower, upper), on one value.
clip(x, lower, upper) ==
    IF RatLeq(x, lower) THEN lower
    ELSE IF RatLeq(upper, x) THEN upper ELSE x

\* A plausible slip: the clamp range of another variant, [-20, 20].
weight_rtmap_OtherRange(snr) ==
    RatDivInt(RatSub(clip(snr, Int2Rat(-20), Int2Rat(20)), Int2Rat(-21)),
              12 - (-21))

\* rtmap.py: df["rx snr"].clip(-21, 12), then
\* (df["rx snr"] - (-21)) / (12 - (-21))
weight_rtmap(snr) ==
    RatDivInt(RatSub(clip(snr, Int2Rat(-21), Int2Rat(12)), Int2Rat(-21)),
              12 - (-21))

----------------------------------------------------------------------------
(* CSV files.  A file is [readable, columns, rows]; a row is               *)
(* [payload, lat, lon, snr], the cells of the columns "payload", "rx lat", *)
(* "rx long" and "rx snr" (the cell of a column the file lacks is never    *)
(* read).  A heat point is <<lat, lon, weight>>.                           *)

RequiredCols == {"rx lat", "rx long", "rx snr"}

Row(payload, lat, lon, snr) ==
    [payload |-> payload, lat |-> lat, lon |-> lon, snr |-> snr]

File(readable, columns, rows) ==
    [readable |-> readable, columns |-> columns, rows |-> rows]

\* pandas gives a numeric column that holds one text the dtype object, and
\* then every cell of the column is a str.
ColumnIsObject(rows, col) ==
    \E k \in 1..Len(rows) :
        CASE col = "rx lat" -> rows[k].lat.t = "str"
          [] col = "rx long" -> rows[k].lon.t = "str"
          [] OTHER -> rows[k].snr.t = "str"

AsColumn(cell, isObject) == IF isObject /\ cell.t = "num" THEN Str ELSE cell

\* pd.read_csv(csv_file): the exception it raises, or the data frame.
read_csv(file) ==
    IF ~file.readable
    THEN [exc |-> "ParserError", columns |-> {}, rows |-> <<>>]
    ELSE [exc |-> "none",
          columns |-> file.columns,
          rows |-> [k \in 1..Len(file.rows) |->
                      Row(file.rows[k].payload,
                          AsColumn(file.rows[k].lat,
                                   ColumnIsObject(file.rows, "rx lat")),
                          AsColumn(file.rows[k].lon,
                                   ColumnIsObject(file.rows, "rx long")),
                          AsColumn(file.rows[k].snr,
                                   ColumnIsObject(file.rows, "rx snr")))]]

\* df["payload"].str: the accessor exists when the column holds strings
\* (dtype object); a column of empty cells alone is float64.
StrAccessorOk(rows) ==
    rows = <<>> \/ \E k \in 1..Len(rows) : rows[k].payload.kind # "nan"

\* df[df["payload"].str.contains(r"seq \d+", na=False)]
ContainsSeq(r) == r.payload.kind # "nan" /\ r.payload.match

IsNA(cell) == cell.t \in {"nan", "none"}

\* isinstance(x, (int, float))
IsNumber(cell) == cell.t \in {"num", "nan"}

\* Series.between(lo, hi) raises TypeError on a column of str.
BetweenRaises(rows) ==
    \E k \in 1..Len(rows) : rows[k].lat.t = "str" \/ rows[k].lon.t = "str"

Between(cell, lo, hi) ==
    /\ cell.t = "num"
    /\ RatLeq(Int2Rat(lo), cell.v)
    /\ RatLeq(cell.v, Int2Rat(hi))

\* What create_heatmap_layer does with a file: it returns a layer
\* ("layer", with its heat points), returns None ("none", msg the message
\* it prints) or raises ("raise", msg the exception).
Layer(file, data) ==
    [status |-> "layer", msg |-> "", file |-> file, data |-> data]
NoLayer(file, msg) ==
    [status |-> "none", msg |-> msg, file |-> file, data |-> <<>>]
Raise(file, e) ==
    [status |-> "raise", msg |-> e, file |-> file, data |-> <<>>]

\* main.py, lines 28-34: the rows that pass every test of the filter.
ValidRow_main(r) ==
    /\ IsNumber(r.lat)
    /\ IsNumber(r.lon)
    /\ Between(r.lat, -90, 90)
    /\ Between(r.lon, -180, 180)
    /\ IsNumber(r.snr)

HeatPoint_main(r) == <<r.lat.v, r.lon.v, weight_main(r.snr.v)>>

create_heatmap_layer_main(file) ==
    LET df == read_csv(file)
    IN  IF df.exc # "none" THEN NoLayer(file, "unreadable")
        ELSE IF "payload" \notin df.columns THEN NoLayer(file, "no payload")
        ELSE IF ~StrAccessorOk(df.rows) THEN Raise(file, "AttributeError")
        ELSE IF ~(RequiredCols \subseteq df.columns)
        THEN NoLayer(file, "missing columns")
        ELSE LET seqRows == SelectSeq(df.rows, ContainsSeq)
                 dropna == SelectSeq(seqRows,
                              LAMBDA r : ~IsNA(r.lat) /\ ~IsNA(r.lon)
                                         /\ ~IsNA(r.snr))
             IN  IF BetweenRaises(dropna) THEN Raise(file, "TypeError")
                 ELSE LET df_filtered == SelectSeq(dropna, ValidRow_main)
                      IN  IF df_filtered = <<>>
                          THEN NoLayer(file, "no valid data")
                          ELSE Layer(file,
                                     [k \in 1..Len(df_filtered) |->
                                        HeatPoint_main(df_filtered[k])])

\* rtmap.py, lines 34-36: the three columns filled from the payload column.
\* pd.Series of the tuple holds None where nothing was extracted, and dropna
\* takes None for missing.
FromPayload(r) ==
    LET x == extract_values_from_payload(r.payload)
    IN  [exc |-> x.exc, row |-> Row(r.payload, x.val[1], x.val[2], x.val[3])]

HeatPoint_rtmap(r) == <<r.lat.v, r.lon.v, weight_rtmap(r.snr.v)>>

\* rtmap.py, line 41: df.dropna(subset=["rx lat", "rx long", "rx snr"])
DropNA_rtmap(rows) ==
    SelectSeq(rows, LAMBDA r : ~IsNA(r.lat) /\ ~IsNA(r.lon) /\ ~IsNA(r.snr))

\* rtmap.py, lines 41-73, on the rows of the frame.
BuildLayer_rtmap(file, rows) ==
    LET df == DropNA_rtmap(rows)
    IN  IF df = <<>> THEN NoLayer(file, "no valid data")
        \* clip() compares the column with -21: a column of str raises.
        ELSE IF \E k \in 1..Len(df) : df[k].snr.t = "str"
        THEN Raise(file, "TypeError")
        \* plugins.HeatMap() takes each location for a pair of numbers.
        ELSE IF \E k \in 1..Len(df) : df[k].lat.t = "str" \/ df[k].lon.t = "str"
        THEN Raise(file, "ValueError")
        ELSE Layer(file, [k \in 1..Len(df) |-> HeatPoint_rtmap(df[k])])

create_heatmap_layer_rtmap(file) ==
    LET df == read_csv(file)
    IN  IF df.exc # "none" THEN Raise(file, df.exc)
        ELSE IF ~(RequiredCols \subseteq df.columns)
        THEN IF "payload" \in df.columns
             THEN LET got == [k \in 1..Len(df.rows) |-> FromPayload(df.rows[k])]
                  IN  \* apply() on no rows gives an empty Series, and the
                      \* three columns cannot be set from it.
                      IF df.rows = <<>> THEN Raise(file, "ValueError")
                      ELSE IF \E k \in 1..Len(got) : got[k].exc # "none"
                      THEN Raise(file,
                                 got[CHOOSE k \in 1..Len(got) :
                                        /\ got[k].exc # "none"
                                        /\ \A j \in 1..(k - 1) :
                                               got[j].exc = "none"].exc)
                      ELSE BuildLayer_rtmap(file,
                              [k \in 1..Len(got) |-> got[k].row])
             ELSE NoLayer(file, "missing columns")
        ELSE BuildLayer_rtmap(file, df.rows)

\* main.py, lines 110-123: the centre of the map, from the first file.  No
\* try guards these lines.
map_center_main(file) ==
    LET first_df == read_csv(file)
        NoCenter(e) == [exc |-> e, center |-> <<Zero, Zero>>]
    IN  IF first_df.exc # "none" THEN NoCenter(first_df.exc)
        ELSE IF "payload" \notin first_df.columns THEN NoCenter("KeyError")
        ELSE IF ~StrAccessorOk(first_df.rows) THEN NoCenter("AttributeError")
        ELSE IF ~({"rx lat", "rx long"} \subseteq first_df.columns)
        THEN NoCenter("KeyError")
        ELSE LET seqRows == SelectSeq(first_df.rows, ContainsSeq)
                 dropna == SelectSeq(seqRows,
                              LAMBDA r : ~IsNA(r.lat) /\ ~IsNA(r.lon))
             IN  IF BetweenRaises(dropna) THEN NoCenter("TypeError")
                 ELSE LET ok == SelectSeq(dropna,
                                  LAMBDA r : /\ Between(r.lat, -90, 90)
                                             /\ Between(r.lon, -180, 180))
                          SumTo[k \in 0..Len(ok)] ==
                              IF k = 0 THEN <<Zero, Zero>>
                              ELSE <<RatAdd(SumTo[k - 1][1], ok[k].lat.v),
                                     RatAdd(SumTo[k - 1][2], ok[k].lon.v)>>
                      IN  IF ok # <<>>
                          THEN [exc |-> "none",
                                center |->
                                  <<RatDivInt(SumTo[Len(ok)][1], Len(ok)),
                                    RatDivInt(SumTo[Len(ok)][2], Len(ok))>>]
                          ELSE NoCenter("none")

----------------------------------------------------------------------------
(* The runs.  pc is the place of the run in its script; a run that ends    *)
(* has pc = "done", with exc the uncaught exception that ended it ("none"  *)
(* when it ran to its end) and exit_code the status of the process, 0      *)
(* unless exit(1) or an uncaught exception sets it.                        *)

Scripts == {"main", "rtmap"}

NoOutput == [written |-> FALSE, layers |-> <<>>]

\* The orders in which glob.glob may list the files of the directory.
Orderings(S) ==
    {s \in [1..Cardinality(S) -> S] :
        \A a, b \in 1..Cardinality(S) : a # b => s[a] # s[b]}

\* What is left of a run that ended.
Outcome ==
    [ran |-> TRUE, order |-> csv_files, exit_code |-> exit_code,
     exc |-> exc, saved |-> saved, stdout |-> stdout]

NoRun ==
    [ran |-> FALSE, order |-> <<>>, exit_code |-> 0,
     exc |-> "none", saved |-> NoOutput, stdout |-> <<>>]

\* An uncaught exception: the traceback goes to stderr and the process ends
\* with status 1.
Crash(e) ==
    /\ pc' = "done"
    /\ exc' = e
    /\ exit_code' = 1

\* main.py, lines 100-107.
MainStart ==
    /\ script = "main"
    /\ pc = "start"
    /\ \E order \in Orderings(dir) :
          /\ csv_files' = order
          /\ IF order = <<>>
             THEN /\ stdout' = Append(stdout, "no csv files")
                  /\ pc' = "done"
             ELSE /\ stdout' = Append(stdout, "found csv files")
                  /\ pc' = "center"
    /\ UNCHANGED <<script, dir, i, layers, saved, exit_code, exc, center,
                   prev>>

\* main.py, lines 110-180: the base map, centred on the first file's points.
MainCenter ==
    /\ script = "main"
    /\ pc = "center"
    /\ LET c == map_center_main(csv_files[1])
       IN  IF c.exc # "none"
           THEN /\ Crash(c.exc)
                /\ UNCHANGED <<center, i>>
           ELSE /\ center' = c.center
                /\ pc' = "loop"
                /\ i' = 1
                /\ UNCHANGED <<exc, exit_code>>
    /\ UNCHANGED <<script, dir, csv_files, layers, stdout, saved, prev>>

\* One turn of a script's loop over csv_files, on what create_heatmap_layer
\* made of the file: the layer is kept, or the message is printed, or the
\* exception ends the run.
LoopTurn(res, after) ==
    /\ CASE res.status = "raise" ->
              /\ Crash(res.msg)
              /\ UNCHANGED <<i, layers, stdout>>
         [] res.status = "none" ->
              /\ stdout' = Append(stdout, res.msg)
              /\ i' = i + 1
              /\ pc' = IF i = Len(csv_files) THEN after ELSE "loop"
              /\ UNCHANGED <<layers, exc, exit_code>>
         [] OTHER ->
              /\ layers' = Append(layers, [file |-> res.file, data |-> res.data])
              /\ i' = i + 1
              /\ pc' = IF i = Len(csv_files) THEN after ELSE "loop"
              /\ UNCHANGED <<stdout, exc, exit_code>>
    /\ UNCHANGED <<script, dir, csv_files, saved, center, prev>>

\* main.py, lines 183-186.
MainAddLayer ==
    /\ script = "main"
    /\ pc = "loop"
    /\ LoopTurn(create_heatmap_layer_main(csv_files[i]), "save")

\* main.py, lines 189-196: the map is saved whatever the loop added to it.
MainSave ==
    /\ script = "main"
    /\ pc = "save"
    /\ saved' = [written |-> TRUE, layers |-> layers]
    /\ stdout' = Append(stdout, "ready")
    /\ pc' = "done"
    /\ UNCHANGED <<script, dir, csv_files, i, layers, exit_code, exc, center,
                   prev>>

\* rtmap.py, lines 164-172.
RtmapStart ==
    /\ script = "rtmap"
    /\ pc = "start"
    /\ \E order \in Orderings(dir) :
          /\ csv_files' = order
          /\ IF order = <<>>
             THEN /\ stdout' = Append(stdout, "no csv files")
                  /\ pc' = "done"
                  /\ exit_code' = 1
                  /\ UNCHANGED i
             ELSE /\ pc' = "loop"
                  /\ i' = 1
                  /\ UNCHANGED <<stdout, exit_code>>
    /\ UNCHANGED <<script, dir, layers, saved, exc, center, prev>>

\* rtmap.py, lines 79-82.
RtmapCreateLayer ==
    /\ script = "rtmap"
    /\ pc = "loop"
    /\ LoopTurn(create_heatmap_layer_rtmap(csv_files[i]), "assemble")

\* rtmap.py, lines 84-160: create_map_with_layers after its loop.
RtmapAssemble ==
    /\ script = "rtmap"
    /\ pc = "assemble"
    /\ IF layers = <<>>
       THEN /\ stdout' = Append(stdout, "no valid csv")
            /\ UNCHANGED saved
       ELSE /\ saved' = [written |-> TRUE, layers |-> layers]
            /\ stdout' = Append(stdout, "map created")
    /\ pc' = "return"
    /\ UNCHANGED <<script, dir, csv_files, i, layers, exit_code, exc,
                   center, prev>>

\* rtmap.py, line 173, after create_map_with_layers returned.
RtmapExit ==
    /\ script = "rtmap"
    /\ pc = "return"
    /\ stdout' = Append(stdout, "map saved")
    /\ pc' = "done"
    /\ UNCHANGED <<script, dir, csv_files, i, layers, saved, exit_code, exc,
                   center, prev>>

\* The messages that tell the user the map was written.
SuccessMessages == {"ready", "map created", "map saved"}

\* The messages that tell the user a file was skipped or nothing was done.
ErrorMessages ==
    {"no csv files", "no valid csv", "unreadable", "no payload",
     "missing columns", "no valid data"}

\* The script is run once more in the same directory; glob may list the
\* files in another order.
Rerun ==
    /\ pc = "done"
    /\ ~prev.ran
    /\ prev' = Outcome
    /\ pc' = "start"
    /\ csv_files' = <<>>
    /\ i' = 0
    /\ layers' = <<>>
    /\ stdout' = <<>>
    /\ saved' = NoOutput
    /\ exit_code' = 0
    /\ exc' = "none"
    /\ center' = <<Zero, Zero>>
    /\ UNCHANGED <<script, dir>>

----------------------------------------------------------------------------
(* The files a directory may hold. *)

AllCols == {"payload", "rx lat", "rx long", "rx snr"}

BaseLat == Num(Int2Rat(45))
BaseLon == Num(Int2Rat(-122))
BaseSnr == Num(Int2Rat(5))

\* Rows of a file with every column: the row of the range test, and the
\* rows that differ from it in one cell.
AllRows ==
    {Row(p, BaseLat, BaseLon, BaseSnr) : p \in {SeqText, OtherText, NaNPayload}}
    \cup {Row(SeqText, x, BaseLon, BaseSnr) : x \in {Num(Int2Rat(95)), NaN, Str}}
    \cup {Row(SeqText, BaseLat, Num(Int2Rat(181)), BaseSnr)}
    \cup {Row(SeqText, BaseLat, BaseLon, x) : x \in {NaN, Str}}

\* Rows of a file without the payload column.
NoPayloadRows == {Row(NaNPayload, r.lat, r.lon, r.snr) : r \in AllRows}

\* The keys of one group with their values, as part of a JSON object.
DocOf(keys, K, vals) == [k \in {keys[j] : j \in K} |->
                            vals[CHOOSE j \in K : keys[j] = k]]

Merge(f, g, h) ==
    [k \in DOMAIN f \cup DOMAIN g \cup DOMAIN h |->
        IF k \in DOMAIN f THEN f[k] ELSE IF k \in DOMAIN g THEN g[k] ELSE h[k]]

BaseDoc(keys, base) == DocOf(keys, {1}, <<Num(Int2Rat(base))>>)

\* The values a key of a JSON object may carry: two numbers, 0, null, a text
\* that is no number and a text that holds one.
JsonValues(base) ==
    {Num(Int2Rat(base)), Num(Int2Rat(base + 1)), Num(Zero), PyNone, Str,
     NumStr(Int2Rat(base))}

\* One group of keys: none, one or two of its keys, with any values.
GroupDocs(keys, base) ==
    {DocOf(keys, K, vals) :
        K \in {S \in SUBSET (1..3) : Cardinality(S) <= 2},
        vals \in [1..3 -> JsonValues(base)]}

\* JSON objects that differ from {"rx lat": 45, "rx long": -122, "rx snr": 5}
\* in the keys of one group.
JsonObjects ==
    {JsonObject(Merge(g, BaseDoc(LonKeys, -122), BaseDoc(SnrKeys, 5))) :
        g \in GroupDocs(LatKeys, 45)}
    \cup {JsonObject(Merge(BaseDoc(LatKeys, 45), g, BaseDoc(SnrKeys, 5))) :
        g \in GroupDocs(LonKeys, -122)}
    \cup {JsonObject(Merge(BaseDoc(LatKeys, 45), BaseDoc(LonKeys, -122), g)) :
        g \in GroupDocs(SnrKeys, 5)}

PayloadUniverse == JsonObjects \cup {SeqText, OtherText, NaNPayload, JsonArray}

GoodPayload ==
    JsonObject(Merge(BaseDoc(LatKeys, 45), BaseDoc(LonKeys, -122),
                     BaseDoc(SnrKeys, 5)))

\* The payloads of the files of Spec.
SmallPayloads ==
    {GoodPayload, SeqText, NaNPayload, JsonArray,
     JsonObject(Merge(BaseDoc(LatKeys, 0), BaseDoc(LonKeys, -122),
                      BaseDoc(SnrKeys, 5))),
     JsonObject(Merge(BaseDoc(LatKeys, 95), BaseDoc(LonKeys, -122),
                      BaseDoc(SnrKeys, 5)))}

PayloadRow(p) == Row(p, NaN, NaN, NaN)

Seqs(S, n) == UNION {[1..k -> S] : k \in 0..n}

\* The files of at most n rows.
FilesUpTo(n) ==
    {File(FALSE, {}, <<>>), File(TRUE, {}, <<>>)}
    \cup {File(TRUE, AllCols, rows) : rows \in Seqs(AllRows, n)}
    \cup {File(TRUE, RequiredCols, rows) : rows \in Seqs(NoPayloadRows, n)}
    \cup {File(TRUE, {"payload"}, rows) :
            rows \in Seqs({PayloadRow(p) : p \in SmallPayloads}, n)}

RECURSIVE TotalRows(_)
TotalRows(D) ==
    IF D = {} THEN 0
    ELSE LET f == CHOOSE f \in D : TRUE
         IN  Len(f.rows) + TotalRows(D \ {f})

\* A CSV file is put into the directory before the script is first run.
AddFile ==
    /\ pc = "start"
    /\ ~prev.ran
    /\ Cardinality(dir) < MaxFiles
    /\ \E f \in FilesUpTo(MaxRows - TotalRows(dir)) :
          /\ f \notin dir
          /\ dir' = dir \cup {f}
    /\ UNCHANGED <<script, csv_files, pc, i, layers, stdout, saved, exit_code,
                   exc, center, prev>>

----------------------------------------------------------------------------
(* Specifications. *)

Fresh ==
    /\ csv_files = <<>>
    /\ pc = "start"
    /\ i = 0
    /\ layers = <<>>
    /\ stdout = <<>>
    /\ saved = NoOutput
    /\ exit_code = 0
    /\ exc = "none"
    /\ center = <<Zero, Zero>>
    /\ prev = NoRun

\* Either script, in a directory that is filled file by file.
Init ==
    /\ script \in Scripts
    /\ dir = {}
    /\ Fresh

NextRtmap == RtmapStart \/ RtmapCreateLayer \/ RtmapAssemble \/ RtmapExit

NextMain == MainStart \/ MainCenter \/ MainAddLayer \/ MainSave

Next == AddFile \/ NextMain \/ NextRtmap \/ Rerun

Spec == Init /\ [][Next]_vars

\* rtmap.py on one file that has only the payload column: rows of the
\* payloads of Spec, one of them replaced by any payload.
InitPayload ==
    /\ script = "rtmap"
    /\ \E n \in 1..MaxRows :
         \E rows \in [1..n -> {PayloadRow(p) : p \in SmallPayloads}] :
           \E k \in 1..n :
             \E p \in PayloadUniverse :
               dir = {File(TRUE, {"payload"},
                           [rows EXCEPT ![k] = PayloadRow(p)])}
    /\ Fresh

SpecPayload == InitPayload /\ [][NextRtmap]_vars

\* The SNR values from below the clamp range to above it, in steps of half
\* a decibel.
SnrValues ==
    {Rat(h, 2) : h \in (2 * (-21) - SnrMargin)..(2 * 12 + SnrMargin)}

\* Either script on one file of two range-test rows.
InitNormalizer ==
    /\ script \in Scripts
    /\ \E a, b \in SnrValues :
          dir = {File(TRUE, AllCols,
                      <<Row(SeqText, BaseLat, BaseLon, Num(a)),
                        Row(SeqText, BaseLat, BaseLon, Num(b))>>)}
    /\ Fresh

NextRun == NextMain \/ NextRtmap

SpecNormalizer == InitNormalizer /\ [][NextRun]_vars

----------------------------------------------------------------------------
(* What the claims speak of. *)

create_heatmap_layer(s, file) ==
    IF s = "main" THEN create_heatmap_layer_main(file)
    ELSE create_heatmap_layer_rtmap(file)

Files == {csv_files[k] : k \in 1..Len(csv_files)}

\* The heat points of the layers of the run.
HeatPoints ==
    UNION {{layers[k].data[j] : j \in 1..Len(layers[k].data)} :
              k \in 1..Len(layers)}

LayerSet(ls) == {ls[k] : k \in 1..Len(ls)}

Printed(msgs) == \E k \in 1..Len(stdout) : stdout[k] \in msgs

CoordinateInRange(point) ==
    /\ RatLeq(Int2Rat(-90), point[1]) /\ RatLeq(point[1], Int2Rat(90))
    /\ RatLeq(Int2Rat(-180), point[2]) /\ RatLeq(point[2], Int2Rat(180))

\* A file the script makes no layer of: it is unreadable, lacks the
\* required columns or has no valid rows.
Unusable(file) == create_heatmap_layer(script, file).status # "layer"

----------------------------------------------------------------------------
(* C1: every heat point of every layer has its latitude in [-90, 90] and  *)
(* its longitude in [-180, 180]; a record outside these ranges is          *)
(* discarded.  rtmap.py tests no range.                                    *)
C1_PointsInRange == \A point \in HeatPoints : CoordinateInRange(point)

(* C2: when every CSV file found is unusable, the run ends with an error  *)
(* message and a non-zero status, writes no output and prints no success   *)
(* message.                                                                *)
C2_AllUnusableFails ==
    (pc = "done" /\ csv_files # <<>> /\ \A f \in Files : Unusable(f))
        => /\ exit_code # 0
           /\ ~saved.written
           /\ ~Printed(SuccessMessages)
           /\ Printed(ErrorMessages) \/ exc # "none"

(* C3: a file that cannot be read, or lacks the required columns, is      *)
(* skipped and the run goes on: with one usable file among the files, the  *)
(* run ends without an exception and has written the output, wherever the  *)
(* other files sit in the list.                                            *)
C3_BadFilesSkipped ==
    (pc = "done" /\ \E f \in Files : ~Unusable(f))
        => /\ exc = "none"
           /\ saved.written

\* The fields of the rows of a file as the claims resolve them: the three
\* columns, or what the payload of the row carries.
ResolvedRows(file) ==
    IF RequiredCols \subseteq file.columns THEN read_csv(file).rows
    ELSE IF "payload" \in file.columns
    THEN [k \in 1..Len(file.rows) |-> FromPayload(file.rows[k]).row]
    ELSE <<>>

\* A row with a latitude and a longitude in range and an SNR value.
ValidRecord(r) ==
    /\ Between(r.lat, -90, 90)
    /\ Between(r.lon, -180, 180)
    /\ r.snr.t = "num"

\* The files the loop of the run is done with.
Processed == {csv_files[k] : k \in 1..(IF pc = "start" THEN 0 ELSE i - 1)}

LayerOf(file) ==
    IF \E k \in 1..Len(layers) : layers[k].file = file
    THEN layers[CHOOSE k \in 1..Len(layers) : layers[k].file = file].data
    ELSE <<>>

(* C6: the SNR heat points of a file are as many as its rows that have    *)
(* valid coordinates and an SNR value, one point each; a record out of     *)
(* range or without a metric gives no point, and no record ends the run    *)
(* with an exception.                                                      *)
C6_OnePointPerValidRecord ==
    /\ \A f \in Processed :
          Len(LayerOf(f)) = Len(SelectSeq(ResolvedRows(f), ValidRecord))
    /\ exc \in {"TypeError", "AttributeError", "ValueError"}
          => csv_files[IF i = 0 THEN 1 ELSE i].rows = <<>>

\* A file of which no row is left after the filters of the script.
NoRowsLeft(file) ==
    /\ create_heatmap_layer(script, file).status = "none"
    /\ create_heatmap_layer(script, file).msg = "no valid data"

(* C8: a file with no rows left after filtering gives no heat point and   *)
(* no layer and is logged as skipped; when another file of the run gave    *)
(* points, the run ends well and writes the output with the layers of the  *)
(* other files.                                                            *)
C8_EmptyFileSkipped ==
    /\ \A f \in Processed :
          NoRowsLeft(f) => LayerOf(f) = <<>> /\ Printed({"no valid data"})
    /\ (/\ pc = "done"
        /\ \E f \in Files : NoRowsLeft(f)
        /\ layers # <<>>)
          => /\ exc = "none"
             /\ exit_code = 0
             /\ saved.written
             /\ saved.layers = layers

(* C9: the outcome of a run does not depend on the order of the CSV       *)
(* files: two runs of the script on the same files end in the same state   *)
(* (written or not, exception or not) with the same layers.                *)
C9_OrderIndependent ==
    (pc = "done" /\ prev.ran)
        => /\ (exc = "none") = (prev.exc = "none")
           /\ exit_code = prev.exit_code
           /\ saved.written = prev.saved.written
           /\ LayerSet(saved.layers) = LayerSet(prev.saved.layers)

----------------------------------------------------------------------------
(* The payloads of the rows of the files. *)

Payloads ==
    UNION {{f.rows[k].payload : k \in 1..Len(f.rows)} : f \in dir}

KeyGroups == {LatKeys, LonKeys, SnrKeys}

Present(doc, keys) == {j \in 1..3 : keys[j] \in DOMAIN doc}

\* The value of the first key of the group that the object has.
FirstPresent(doc, keys) ==
    doc[keys[CHOOSE j \in Present(doc, keys) :
                \A m \in Present(doc, keys) : j <= m]]

\* A JSON object with a number under a key of each group.
CarriesNumbers(p) ==
    /\ p.kind \in {"object", "dict"}
    /\ \A keys \in KeyGroups :
          /\ Present(p.doc, keys) # {}
          /\ \A j \in Present(p.doc, keys) : p.doc[keys[j]].t = "num"

(* C4: of a JSON object that carries numbers for the latitude, the        *)
(* longitude and the SNR, extract_values_from_payload returns these three  *)
(* values, each from the first key of its group that is present, whatever  *)
(* the numbers are, 0 included.                                            *)
C4_ExtractsCarriedNumbers ==
    \A f \in Processed :
        \A k \in 1..Len(f.rows) :
            LET p == f.rows[k].payload
            IN  CarriesNumbers(p) =>
                    extract_values_from_payload(p) =
                        [exc |-> "none",
                         val |-> <<FirstPresent(p.doc, LatKeys),
                                   FirstPresent(p.doc, LonKeys),
                                   FirstPresent(p.doc, SnrKeys)>>]

\* The failures C7 lists: the payload is no string and no mapping, is no
\* JSON, is JSON but no object, lacks the keys of a group, or has under the
\* keys of a group only values that are no numbers.
ListedFailure(p) ==
    \/ p.kind \notin {"text", "object", "array", "dict"}
    \/ p.kind = "text"
    \/ p.kind = "array"
    \/ /\ p.kind \in {"object", "dict"}
       /\ \E keys \in KeyGroups :
             \A j \in Present(p.doc, keys) :
                 p.doc[keys[j]].t \in {"none", "str"}

\* The heat points rtmap.py owes to the rows whose fields were extracted.
PointsOfExtracted(file) ==
    LET got == SelectSeq(ResolvedRows(file),
                         LAMBDA r : <<r.lat, r.lon, r.snr>> # NoFields)
    IN  [k \in 1..Len(got) |->
           <<got[k].lat.v, got[k].lon.v, weight_rtmap(got[k].snr.v)>>]

(* C7: of a payload whose decoding or conversion fails,                   *)
(* extract_values_from_payload returns (None, None, None) and raises       *)
(* nothing; create_heatmap_layer drops the record, and the other records   *)
(* of the file still become heat points.                                   *)
C7_FailedPayloadDropped ==
    /\ \A p \in Payloads :
          ListedFailure(p) =>
              extract_values_from_payload(p) = [exc |-> "none", val |-> NoFields]
    /\ \A f \in Processed :
          /\ exc = "none"
          /\ LayerOf(f) = PointsOfExtracted(f)
    /\ pc = "done" => Processed = dir

\* A file with a payload that fails and a payload that does not: the run is
\* over, and the layer of the file holds a point.
C7_Witness ==
    /\ pc = "done"
    /\ exc = "none"
    /\ saved.written
    /\ \E f \in dir :
          /\ \E k \in 1..Len(f.rows) : ListedFailure(f.rows[k].payload)
          /\ Len(f.rows) > 1
          /\ Len(LayerOf(f)) = Len(f.rows) - 1

----------------------------------------------------------------------------
(* The weights of the heat points, each with the SNR value of its row. *)

Weighted ==
    UNION {{[snr |-> layers[k].file.rows[j].snr.v,
             weight |-> layers[k].data[j][3]] :
               j \in 1..Len(layers[k].data)} : k \in 1..Len(layers)}

\* Clamp the raw value into [lo, hi], then scale: (clamped - lo) / (hi - lo).
FixedRange(raw, lo, hi) ==
    LET clamped == RatMax(Int2Rat(lo), RatMin(Int2Rat(hi), raw))
    IN  Rat((clamped.n - lo * clamped.d), clamped.d * (hi - lo))

(* C5: the weight of every SNR value lies in [0, 1], and a greater SNR    *)
(* value never has a smaller weight, in both scripts.                      *)
C5_WeightInRangeAndMonotone ==
    /\ \A k \in 1..Len(layers) :
          Len(layers[k].data) = Len(layers[k].file.rows)
    /\ \A a \in Weighted :
          RatLeq(Zero, a.weight) /\ RatLeq(a.weight, One)
    /\ \A a, b \in Weighted :
          RatLeq(a.snr, b.snr) => RatLeq(a.weight, b.weight)

\* A layer with a point below the clamp range and a point above it.
C5_Witness ==
    /\ pc = "done"
    /\ \E a, b \in Weighted :
          /\ ~RatLeq(Int2Rat(-21), a.snr) /\ a.weight = Zero
          /\ ~RatLeq(b.snr, Int2Rat(12)) /\ b.weight = One

(* C10: the normalizers of the two scripts are one function: the weight a *)
(* script gives an SNR value is the weight the other script gives it, and  *)
(* both are (clamped - lo) / (hi - lo) with lo = -21 and hi = 12; -21 dB   *)
(* has the weight 0, 12 dB the weight 1 and -4.5 dB the weight 0.5.        *)
C10_SameNormalizer ==
    \A a \in Weighted :
        /\ a.weight = weight_main(a.snr)
        /\ a.weight = weight_rtmap(a.snr)
        /\ a.weight = FixedRange(a.snr, -21, 12)
        /\ a.snr = Int2Rat(-21) => a.weight = Zero
        /\ a.snr = Int2Rat(12) => a.weight = One
        /\ a.snr = Rat(-9, 2) => a.weight = Rat(1, 2)

\* A layer of either script with the points of -4.5 dB and of 12 dB.
C10_Witness ==
    /\ pc = "done"
    /\ [snr |-> Rat(-9, 2), weight |-> Rat(1, 2)] \in Weighted
    /\ [snr |-> Int2Rat(12), weight |-> One] \in Weighted

====
